---------------------------- MODULE Spec2Model ----------------------------
(***************************************************************************)
(* Evolutionary TSP solver: Population / Evolution (src/algorithms/base.py),*)
(* the TSP individual and the run loop (src/algorithms/tsp.py) and the     *)
(* distance model and fitness (src/utils/metrics.py).                      *)
(*                                                                         *)
(* Python lists and numpy arrays are 0-based; TLA+ sequences are 1-based.  *)
(* A route `value` is a sequence of city indices 0..n-1; position i of the *)
(* source is position i+1 here.  Cut points and sampled indices keep the   *)
(* source's 0-based values.                                                *)
(*                                                                         *)
(* Individuals are modelled by their value: pair() builds its child from   *)
(* fresh arrays (.copy(), np.array(list)) and step() mutates only the      *)
(* child it has just built, so no array of the population is shared with   *)
(* an array that is written.                                               *)
(***************************************************************************)
EXTENDS Integers, Sequences, FiniteSets, TLC

\* ------------------------------------------------------------- bounds ---
MaxPool == 3      \* largest population_size drawn
MaxCells == 8     \* largest population drawn, in cells (population_size * n_cities)
MaxNew == 2       \* most candidates handed to Population.replace
MaxNewCells == 4  \* most candidates handed to replace, in cells (candidates * n_cities)
RateDen == 2      \* mutation_rate is drawn from {0/RateDen .. RateDen/RateDen}
MaxLen == 4       \* longest route drawn for the operator-level specification
MaxFrameLen == 3  \* longest route drawn where the child is mutated after pair()
MaxOffsprings == 1  \* largest n_offsprings drawn
MaxEpochs == 3    \* largest n_epochs drawn
MaxWork == 16     \* largest run drawn, in cells (n_epochs * population_size * n_cities)

\* The locations a run may be given: the corners of a 3 x 4 rectangle, so
\* every Euclidean distance is an integer (3, 4 or 5).  A run receives a
\* prefix of this list (0 to 4 cities).
Cities == << <<0, 0>>, <<3, 0>>, <<3, 4>>, <<0, 4>> >>

VARIABLES
    pc,               \* position of the run / of the operator call
    err,              \* exception that ended the run ("none" while running)
    cities,           \* run_tsp_evolution argument
    pool_size,        \* population_size argument
    tournament_size,  \* Evolution.tournament_size
    rate,             \* mutate_params['rate'], as a numerator over RateDen
    distances,        \* the matrix the fitness closure holds
    individuals,      \* Population.individuals (sequence of route values)
    last_op,          \* last operation completed on the engine
    mutation_count,   \* value returned by the last step()
    n_offsprings,     \* Evolution.n_offsprings
    n_epochs,         \* run: n_epochs argument
    verbose,          \* run: verbose argument
    epoch,            \* run: number of loop iterations completed
    best_route,       \* run: best_route
    best_lengths,     \* run: best_lengths (the length history)
    improvements,     \* run: improvements
    last_improvement, \* run: last_improvement
    total_mutations,  \* run: total_mutations
    returns,          \* run: the values the step() calls returned, in order
    old_individuals,  \* population-level: the list when the method was called
    candidates,       \* population-level: new_individuals handed to replace()
    contestants_indices, \* population-level: the indices random.sample drew
    winner,           \* population-level: index of the individual returned
    self_value,       \* operator-level: self.value
    other_value,      \* operator-level: other.value
    child_value,      \* operator-level: value of the individual pair() returned
    old_value,        \* operator-level: self.value when the operator was called
    old_other,        \* operator-level: other.value when the operator was called
    child_array,      \* operator-level: the array that holds the child's value
    cut,              \* operator-level: <<start, end>> drawn by pair()
    returned,         \* operator-level: what mutate() returned
    step_new_individuals, \* step-level: new_individuals of step(), as entries
                      \*   << slot of the pre-step individual it is (0 for an
                      \*   individual created in this step), value >>
    pool_values,      \* step-level: values of the pre-step individuals when
                      \*   the step ended
    best_route_slot   \* step-level: slot of the pre-step individual whose
                      \*   array the run's best_route is

run_vars == << n_epochs, verbose, epoch, best_route, best_lengths, improvements,
               last_improvement, total_mutations, returns >>

population_vars == << old_individuals, candidates, contestants_indices, winner >>

engine_vars == << cities, pool_size, tournament_size, n_offsprings, distances,
                  individuals, last_op, mutation_count >>

operator_vars == << self_value, other_value, old_value, old_other, child_value,
                    child_array, cut, returned >>

step_vars == << step_new_individuals, pool_values, best_route_slot >>

vars == << pc, err, rate, engine_vars, run_vars, population_vars, operator_vars,
           step_vars >>

\* ------------------------------------------------------------ helpers ---
Abs(x) == IF x < 0 THEN -x ELSE x

Range(s) == { s[i] : i \in 1..Len(s) }

\* all routes over the cities 0..n-1: the values np.random.permutation(n) can return
Perms(n) == { p \in [1..n -> 0..(n-1)] : \A i, j \in 1..n : p[i] = p[j] => i = j }

\* value is a sequence of length n holding each of 0..n-1 exactly once
IsPermutation(value, n) ==
    /\ Len(value) = n
    /\ \A c \in 0..(n-1) : Cardinality({ i \in 1..Len(value) : value[i] = c }) = 1

\* number of positions of value holding c
Count(value, c) == Cardinality({ i \in 1..Len(value) : value[i] = c })

\* random.sample(range(n), k): all ordered draws of k distinct indices 0..n-1
Samples(n, k) ==
    { s \in [1..k -> 0..(n-1)] : \A i, j \in 1..k : s[i] = s[j] => i = j }

\* ----------------------------------------------------------- metrics ---
\* np.linalg.norm of the difference of two points (exact for Cities)
Norm(a, b) ==
    LET dx == Abs(a[1] - b[1])
        dy == Abs(a[2] - b[2])
    IN  CHOOSE r \in 0..(dx + dy) : r * r = dx * dx + dy * dy

calculate_distances(cs) ==
    [ i \in 0..(Len(cs) - 1), j \in 0..(Len(cs) - 1) |->
        IF i /= j THEN Norm(cs[i + 1], cs[j + 1]) ELSE 0 ]

RECURSIVE route_length(_, _, _)
\* sum of d[value[i], value[(i+1) % len]] for i = k .. len-1 (0-based)
route_length(d, value, k) ==
    IF k >= Len(value) THEN 0
    ELSE d[value[k + 1], value[((k + 1) % Len(value)) + 1]]
         + route_length(d, value, k + 1)

\* the closure tsp_fitness_creator returns
fitness(d, value) == 0 - route_length(d, value, 0)


\* -------------------------------------------------------- slices, sort ---
Min(a, b) == IF a < b THEN a ELSE b

\* Python s[:k] for k >= 0 (clamped to the length)
Prefix(s, k) == SubSeq(s, 1, Min(k, Len(s)))

\* Python s[k:] for k >= 0 (empty when k >= len)
From(s, k) == SubSeq(s, k + 1, Len(s))

\* Python s[-k:]: the last k elements for 1 <= k <= len, and the whole list
\* for k = 0 (s[-0:] is s[0:]) and for k > len
Suffix(s, k) ==
    IF k = 0 \/ k >= Len(s) THEN s ELSE SubSeq(s, Len(s) - k + 1, Len(s))

\* x placed behind the first n elements of sorted
InsertAt(sorted, x, n) == Prefix(sorted, n) \o << x >> \o From(sorted, n)

\* x placed behind every element whose key is <= the key fx of x
InsertByFitness(d, sorted, x, fx) ==
    InsertAt(sorted, x,
             Cardinality({ i \in 1..Len(sorted) : fitness(d, sorted[i]) <= fx }))

RECURSIVE sort_by_fitness(_, _)
\* list.sort(key=lambda x: self.fitness(x)): ascending and stable
sort_by_fitness(d, s) ==
    IF s = << >> THEN << >>
    ELSE InsertByFitness(d, sort_by_fitness(d, SubSeq(s, 1, Len(s) - 1)),
                         s[Len(s)], fitness(d, s[Len(s)]))

IsSorted(d, s) ==
    \A i \in 1..(Len(s) - 1) : fitness(d, s[i]) <= fitness(d, s[i + 1])

\* ---------------------------------------------------------- Population ---
\* Population.__init__ on the individuals random initialisation produced
new_population(d, fresh) == sort_by_fitness(d, fresh)

\* replace() without the truncation of line 89
replace_no_truncation(d, inds, new_individuals) ==
    sort_by_fitness(d, inds \o new_individuals)

\* replace() that keeps the front of the sorted list
replace_keeps_front(d, inds, new_individuals) ==
    LET size == Len(inds)
    IN  Prefix(sort_by_fitness(d, inds \o new_individuals), size)

\* Population.replace
replace(d, inds, new_individuals) ==
    LET size == Len(inds)
    IN  Suffix(sort_by_fitness(d, inds \o new_individuals), size)

\* Population.get_best_individual (defined for a non-empty list)
get_best_individual(inds) == inds[Len(inds)]

RECURSIVE tournament_winner(_, _, _, _, _)
\* the loop of tournament_selection over contestants_indices[k..], 1-based k
tournament_winner(d, inds, contestants, k, best_idx) ==
    IF k > Len(contestants) THEN best_idx
    ELSE tournament_winner(d, inds, contestants, k + 1,
            IF fitness(d, inds[contestants[k] + 1]) > fitness(d, inds[best_idx + 1])
            THEN contestants[k] ELSE best_idx)

\* a tournament that keeps the last-drawn of the contestants tied for the best
tournament_selection_last_tied(d, inds, contestants) ==
    LET Fit(i) == fitness(d, inds[contestants[i] + 1])
        tied == { i \in 1..Len(contestants) :
                    \A j \in 1..Len(contestants) : Fit(j) <= Fit(i) }
    IN  contestants[CHOOSE i \in tied : \A j \in tied : j <= i]

\* Population.tournament_selection for one draw of contestants (k >= 1):
\* the 0-based index of the winner
tournament_selection(d, inds, contestants) ==
    tournament_winner(d, inds, contestants, 2, contestants[1])

\* every individual a tournament of size k can return
TournamentWinners(d, inds, k) ==
    { inds[tournament_selection(d, inds, c) + 1] : c \in Samples(Len(inds), k) }

\* ----------------------------------------------------------------- TSP ---
\* cut points whose end may be size, a segment reaching the end of self
CutPointsToSize(size) ==
    { c \in (0..size) \X (0..size) : c[1] < c[2] }

\* sorted(random.sample(range(size), 2)): all <<start, end>> with start < end
CutPoints(size) ==
    { c \in (0..(size - 1)) \X (0..(size - 1)) : c[1] < c[2] }

\* pair() that fills from other without skipping the copied segment
pair_no_skip(self, other, start, end) ==
    LET child_p1 == SubSeq(self, start + 1, end)
    IN  Prefix(other, start) \o child_p1 \o From(other, start)

\* pair() whose skip set reaches one city past the copied segment
pair_skip_one_more(self, other, start, end) ==
    LET child_p1 == SubSeq(self, start + 1, end)
        skip_set == Range(SubSeq(self, start + 1, end + 1))
        Keep(city) == city \notin skip_set
        child_p2 == SelectSeq(other, Keep)
    IN  Prefix(child_p2, start) \o child_p1 \o From(child_p2, start)

\* pair() that puts the copied segment in front of the cities of other
pair_segment_first(self, other, start, end) ==
    LET child_p1 == SubSeq(self, start + 1, end)
        child_p1_set == Range(child_p1)
        Keep(city) == city \notin child_p1_set
        child_p2 == SelectSeq(other, Keep)
    IN  child_p1 \o child_p2

\* TSP.pair for one draw of cut points
pair(self, other, start, end) ==
    LET child_p1 == SubSeq(self, start + 1, end)
        child_p1_set == Range(child_p1)
        Keep(city) == city \notin child_p1_set
        child_p2 == SelectSeq(other, Keep)
    IN  Prefix(child_p2, start) \o child_p1 \o From(child_p2, start)

\* a pair() that builds the child in self's own array
pair_array_in_place(self, other) == "self"

\* a pair() that builds the child in other's array
pair_array_of_other(self, other) == "other"

\* the array that holds the value of the individual TSP.pair returns:
\* np.array(list) allocates a new one, built from a .copy() of self's slice
\* and from a list comprehension over other
pair_array(self, other) == "new"

\* a swap written as two plain assignments: value[i] = value[j]; value[j] = value[i]
swap_sequential(value, i, j) ==
    [ value EXCEPT ![i + 1] = value[j + 1] ]

\* the swap of TSP.mutate for one draw of positions i, j (0-based)
swap(value, i, j) ==
    [ value EXCEPT ![i + 1] = value[j + 1], ![j + 1] = value[i + 1] ]

\* random.random() < rate, with random() drawn as r / RateDen, 0 <= r < RateDen,
\* and rate = rt / RateDen
Fires(r, rt) == r < rt

\* the outcomes the test of TSP.mutate can have at this rate
CoinFlips(rt) == { Fires(r, rt) : r \in 0..(RateDen - 1) }

\* TSP.mutate on a value of length >= 2: every << value after, returned >>
MutateOutcomes(value, rt) ==
    { << swap(value, s[1], s[2]), TRUE >> :
        s \in IF TRUE \in CoinFlips(rt) THEN Samples(Len(value), 2) ELSE {} }
    \cup (IF FALSE \in CoinFlips(rt) THEN { << value, FALSE >> } ELSE {})

\* ----------------------------------------------------------- Evolution ---
\* one pass of the loop body of Evolution.step (for routes of length >= 2 and
\* 1 <= k <= population size): every << offspring value, mutate() returned >>
Offsprings(d, inds, k, rt) ==
    UNION { MutateOutcomes(pair(p[1], p[2], c[1], c[2]), rt) :
              p \in TournamentWinners(d, inds, k) \X TournamentWinners(d, inds, k),
              c \in CutPoints(Len(inds[1])) }

\* a step() that stops producing after n_offsprings offspring
next_generation_n_offsprings(inds, offspring) ==
    << get_best_individual(inds) >> \o
        [ i \in 1..Min(n_offsprings, Len(offspring)) |-> offspring[i][1] ]

\* the list step() installs: the elite, then the offspring in creation order
next_generation(inds, offspring) ==
    << get_best_individual(inds) >> \o [ i \in 1..Len(offspring) |-> offspring[i][1] ]

\* the count step() returns
count_mutations(offspring) ==
    Cardinality({ i \in 1..Len(offspring) : offspring[i][2] })

\* step() whose loop body runs before its condition is tested
step_error_body_first(inds, k, n) ==
    IF Len(inds) = 0 THEN "IndexError"
    ELSE IF k > Len(inds) THEN "ValueError"
    ELSE IF k = 0 THEN "IndexError"
    ELSE IF n < 2 THEN "ValueError"
    ELSE "none"

\* the exception step() ends with on this engine, "none" if it completes
step_error(inds, k, n) ==
    IF Len(inds) = 0 THEN "IndexError"          \* get_best_individual: [][-1]
    ELSE IF Len(inds) = 1 THEN "none"           \* the loop body never runs
    ELSE IF k > Len(inds) THEN "ValueError"     \* random.sample: sample too large
    ELSE IF k = 0 THEN "IndexError"             \* contestants_indices[0] of []
    ELSE IF n < 2 THEN "ValueError"             \* pair: random.sample(range(n), 2)
    ELSE "none"

\* ---------------------------------------------------------- the run ---
Raise(e) ==
    /\ pc' = "raised"
    /\ err' = e

\* no step() under way
NoStep ==
    /\ step_new_individuals = << >>
    /\ pool_values = << >>
    /\ best_route_slot = 0

NoCall ==
    /\ NoStep
    /\ self_value = << >>
    /\ other_value = << >>
    /\ old_value = << >>
    /\ old_other = << >>
    /\ child_value = << >>
    /\ child_array = "none"
    /\ cut = << >>
    /\ returned = FALSE
    /\ old_individuals = << >>
    /\ candidates = << >>
    /\ contestants_indices = << >>
    /\ winner = 0

\* no run bookkeeping yet (run_tsp_evolution lines 137-140 set the counters to 0)
NoRun ==
    /\ epoch = 0
    /\ best_route = << >>
    /\ best_lengths = << >>
    /\ improvements = 0
    /\ last_improvement = 0
    /\ total_mutations = 0
    /\ returns = << >>

Init ==
    /\ pc = "start"
    /\ err = "none"
    /\ cities \in { SubSeq(Cities, 1, n) : n \in 0..Len(Cities) }
    /\ pool_size \in 0..MaxPool
    /\ pool_size * Len(cities) <= MaxCells
    /\ tournament_size \in 0..(pool_size + 1)
    /\ n_offsprings \in 1..MaxOffsprings
    /\ rate \in 0..RateDen
    /\ distances = << >>
    /\ individuals = << >>
    /\ last_op = "none"
    /\ mutation_count = 0
    /\ n_epochs = 0
    /\ verbose = FALSE
    /\ NoRun
    /\ NoCall

\* run_tsp_evolution: distances = calculate_distances(cities)
CalculateDistances ==
    /\ pc = "start"
    /\ distances' = calculate_distances(cities)
    /\ pc' = "distances"
    /\ UNCHANGED << step_vars, err, cities, pool_size, tournament_size, n_offsprings, rate,
                    individuals, last_op, mutation_count, run_vars,
                    population_vars, operator_vars >>

\* Evolution.__init__, which builds the Population
NewEvolution ==
    /\ pc = "distances"
    /\ \E fresh \in [1..pool_size -> Perms(Len(cities))] :
          individuals' = new_population(distances, fresh)
    /\ pc' = "constructed"
    /\ UNCHANGED << step_vars, err, cities, pool_size, tournament_size, n_offsprings, rate,
                    distances, last_op, mutation_count, run_vars,
                    population_vars, operator_vars >>

\* run_tsp_evolution: best_individual = evo.pool.get_best_individual()
InitialBest ==
    /\ pc = "constructed"
    /\ IF Len(individuals) = 0
       THEN Raise("IndexError")
       ELSE pc' = "ready" /\ err' = err
    /\ UNCHANGED << step_vars, engine_vars, rate, run_vars, population_vars, operator_vars >>

\* evo.step()
Step ==
    /\ pc = "ready"
    /\ LET e == step_error(individuals, tournament_size, Len(cities))
       IN  IF e /= "none"
           THEN /\ Raise(e)
                /\ UNCHANGED << individuals, last_op, mutation_count >>
           ELSE /\ \E offspring \in
                      [1..(Len(individuals) - 1) ->
                          IF Len(individuals) = 1 THEN {}
                          ELSE Offsprings(distances, individuals, tournament_size, rate)] :
                      /\ individuals' = next_generation(individuals, offspring)
                      /\ mutation_count' = count_mutations(offspring)
                /\ last_op' = "step"
                /\ pc' = "ready"
                /\ err' = err
    /\ UNCHANGED << step_vars, cities, pool_size, tournament_size, n_offsprings, rate, distances,
                    run_vars, population_vars, operator_vars >>

\* pool.replace(new_individuals)
Replace ==
    /\ pc = "ready"
    /\ \E k \in { m \in 0..MaxNew : m * Len(cities) <= MaxNewCells } :
          \E new_individuals \in [1..k -> Perms(Len(cities))] :
             individuals' = replace(distances, individuals, new_individuals)
    /\ last_op' = "replace"
    /\ UNCHANGED << step_vars, pc, err, cities, pool_size, tournament_size, n_offsprings, rate,
                    distances, mutation_count, run_vars, population_vars,
                    operator_vars >>

Next ==
    \/ CalculateDistances
    \/ NewEvolution
    \/ InitialBest
    \/ Step
    \/ Replace

Spec == Init /\ [][Next]_vars

\* ------------------------------------------------- run_tsp_evolution ---
\* a loop that runs once more than range(n_epochs)
epochs_left_inclusive(e, n) == e <= n

\* for epoch in range(n_epochs): an iteration is left after e of them
epochs_left(e, n) == e < n

\* an improvement test that also counts an equal length
improved_or_equal(current_length, previous_length) ==
    current_length <= previous_length

\* if current_length < best_lengths[-2]
improved(current_length, previous_length) == current_length < previous_length

\* the exception the code after the loop ends with, "none" if it returns:
\* (initial_length - final_length) / initial_length divides by the int 0 of
\* an empty route, and the verbose summary divides by n_epochs
finish_error(n_cities, epochs, vb) ==
    IF n_cities = 0 THEN "ZeroDivisionError"
    ELSE IF vb /\ epochs = 0 THEN "ZeroDivisionError"
    ELSE "none"

\* the arguments of a run; the counters are those of lines 137-140
InitRun ==
    /\ pc = "start"
    /\ err = "none"
    /\ cities \in { SubSeq(Cities, 1, n) : n \in 0..Len(Cities) }
    /\ pool_size \in 0..MaxPool
    /\ pool_size * Len(cities) <= MaxCells
    /\ tournament_size \in 0..(pool_size + 1)
    /\ n_offsprings \in 1..MaxOffsprings
    /\ rate \in 0..RateDen
    /\ n_epochs \in 0..MaxEpochs
    /\ n_epochs * pool_size * Len(cities) <= MaxWork
    /\ verbose \in BOOLEAN
    /\ distances = << >>
    /\ individuals = << >>
    /\ last_op = "none"
    /\ mutation_count = 0
    /\ NoRun
    /\ NoCall

\* the initial best route and the first history entry
RunInitialBest ==
    /\ pc = "constructed"
    /\ IF Len(individuals) = 0
       THEN /\ Raise("IndexError")
            /\ UNCHANGED << best_route, best_lengths >>
       ELSE /\ best_route' = get_best_individual(individuals)
            /\ best_lengths' =
                   << 0 - fitness(distances, get_best_individual(individuals)) >>
            /\ pc' = "loop"
            /\ err' = err
    /\ UNCHANGED << step_vars, engine_vars, rate, n_epochs, verbose, epoch, improvements,
                    last_improvement, total_mutations, returns,
                    population_vars, operator_vars >>

\* one iteration of the epoch loop: evo.step() and the bookkeeping after it
Epoch ==
    /\ pc = "loop"
    /\ epochs_left(epoch, n_epochs)
    /\ LET e == step_error(individuals, tournament_size, Len(cities))
       IN  IF e /= "none"
           THEN /\ Raise(e)
                /\ UNCHANGED << individuals, last_op, mutation_count, epoch,
                                best_route, best_lengths, improvements,
                                last_improvement, total_mutations, returns >>
           ELSE /\ \E offspring \in
                      [1..(Len(individuals) - 1) ->
                          IF Len(individuals) = 1 THEN {}
                          ELSE Offsprings(distances, individuals, tournament_size, rate)] :
                      LET new_individuals == next_generation(individuals, offspring)
                          mutations == count_mutations(offspring)
                          current_best == get_best_individual(new_individuals)
                          current_length == 0 - fitness(distances, current_best)
                          better == improved(current_length,
                                             best_lengths[Len(best_lengths)])
                      IN  /\ individuals' = new_individuals
                          /\ mutation_count' = mutations
                          /\ returns' = Append(returns, mutations)
                          /\ total_mutations' = total_mutations + mutations
                          /\ best_lengths' = Append(best_lengths, current_length)
                          /\ improvements' =
                                 IF better THEN improvements + 1 ELSE improvements
                          /\ last_improvement' =
                                 IF better THEN epoch ELSE last_improvement
                          /\ best_route' =
                                 IF better THEN current_best ELSE best_route
                /\ epoch' = epoch + 1
                /\ last_op' = "step"
                /\ pc' = pc
                /\ err' = err
    /\ UNCHANGED << step_vars, cities, pool_size, tournament_size, n_offsprings, rate,
                    distances, n_epochs, verbose, population_vars, operator_vars >>

\* the code after the loop, up to the return
Finish ==
    /\ pc = "loop"
    /\ ~epochs_left(epoch, n_epochs)
    /\ LET e == finish_error(Len(cities), n_epochs, verbose)
       IN  IF e /= "none"
           THEN Raise(e)
           ELSE pc' = "done" /\ err' = err
    /\ UNCHANGED << step_vars, engine_vars, rate, run_vars, population_vars, operator_vars >>

NextRun ==
    \/ CalculateDistances
    \/ NewEvolution
    \/ RunInitialBest
    \/ Epoch
    \/ Finish

SpecRun == InitRun /\ [][NextRun]_vars

\* ------------------------------------------ the Population methods alone ---
\* a population as construction or any number of steps can leave it: step()
\* installs its offspring in creation order, so every order occurs
InitPopulation ==
    /\ pc = "population"
    /\ err = "none"
    /\ cities \in { SubSeq(Cities, 1, n) : n \in 0..Len(Cities) }
    /\ distances = calculate_distances(cities)
    /\ pool_size \in 0..MaxPool
    /\ pool_size * Len(cities) <= MaxCells
    /\ individuals \in [1..pool_size -> Perms(Len(cities))]
    /\ tournament_size \in 0..(pool_size + 1)
    /\ n_offsprings = 1
    /\ rate = 0
    /\ last_op = "none"
    /\ mutation_count = 0
    /\ n_epochs = 0
    /\ verbose = FALSE
    /\ NoRun
    /\ NoCall

\* self.pool.replace(new_individuals)
CallReplace ==
    /\ pc = "population"
    /\ \E k \in { m \in 0..MaxNew : m * Len(cities) <= MaxNewCells } :
          \E new_individuals \in [1..k -> Perms(Len(cities))] :
             /\ candidates' = new_individuals
             /\ individuals' = replace(distances, individuals, new_individuals)
    /\ old_individuals' = individuals
    /\ pc' = "replaced"
    /\ last_op' = "replace"
    /\ UNCHANGED << step_vars, err, rate, cities, pool_size, tournament_size, n_offsprings,
                    distances, mutation_count, run_vars, contestants_indices,
                    winner, operator_vars >>

\* self.pool.tournament_selection(tournament_size)
CallTournament ==
    /\ pc = "population"
    /\ IF tournament_size > Len(individuals)
       THEN /\ Raise("ValueError")           \* random.sample: k larger than n
            /\ UNCHANGED << contestants_indices, winner >>
       ELSE IF tournament_size = 0
       THEN /\ Raise("IndexError")           \* contestants_indices[0]
            /\ UNCHANGED << contestants_indices, winner >>
       ELSE /\ \E c \in Samples(Len(individuals), tournament_size) :
                  /\ contestants_indices' = c
                  /\ winner' = tournament_selection(distances, individuals, c)
            /\ pc' = "selected"
            /\ err' = err
    /\ UNCHANGED << step_vars, rate, engine_vars, run_vars, old_individuals, candidates,
                    operator_vars >>

NextPopulation ==
    \/ CallReplace
    \/ CallTournament

SpecPopulation == InitPopulation /\ [][NextPopulation]_vars

\* ------------------------------ Evolution.step, iteration by iteration ---
\* a population as construction or earlier steps left it, with the run's
\* best_route still the array of the initial best individual: the last slot
\* before the first step, the first slot (the carried-over elite) after it
InitStep ==
    /\ pc = "pool"
    /\ err = "none"
    /\ cities \in { SubSeq(Cities, 1, n) : n \in 0..Len(Cities) }
    /\ distances = calculate_distances(cities)
    /\ pool_size \in 0..MaxPool
    /\ pool_size * Len(cities) <= MaxCells
    /\ individuals \in [1..pool_size -> Perms(Len(cities))]
    /\ tournament_size \in 0..(pool_size + 1)
    /\ n_offsprings = 1
    /\ rate \in 0..RateDen
    /\ last_op = "none"
    /\ mutation_count = 0
    /\ best_route_slot \in (IF pool_size = 0 THEN { 0 } ELSE { 1, pool_size })
    /\ best_route = IF best_route_slot = 0 THEN << >>
                    ELSE individuals[best_route_slot]
    /\ step_new_individuals = << >>
    /\ pool_values = << >>
    /\ old_individuals = << >>
    /\ n_epochs = 0
    /\ verbose = FALSE
    /\ epoch = 0
    /\ best_lengths = << >>
    /\ improvements = 0
    /\ last_improvement = 0
    /\ total_mutations = 0
    /\ returns = << >>
    /\ candidates = << >>
    /\ contestants_indices = << >>
    /\ winner = 0
    /\ self_value = << >>
    /\ other_value = << >>
    /\ old_value = << >>
    /\ old_other = << >>
    /\ child_value = << >>
    /\ child_array = "none"
    /\ cut = << >>
    /\ returned = FALSE

\* the exception an iteration of the loop of step() ends with, "none" if it
\* completes: random.sample in the tournament, contestants_indices[0], or
\* random.sample in pair()
iteration_error(inds, k, n) ==
    IF k > Len(inds) THEN "ValueError"
    ELSE IF k = 0 THEN "IndexError"
    ELSE IF n < 2 THEN "ValueError"
    ELSE "none"

\* the slots (1-based) of the individuals a tournament of size k can return
TournamentSlots(d, inds, k) ==
    { tournament_selection(d, inds, c) + 1 : c \in Samples(Len(inds), k) }

\* step() up to the loop: the elite is the first entry of new_individuals
StepBegin ==
    /\ pc = "pool"
    /\ old_individuals' = individuals
    /\ IF Len(individuals) = 0
       THEN /\ Raise("IndexError")           \* get_best_individual()
            /\ UNCHANGED step_new_individuals
       ELSE /\ step_new_individuals' =
                   << << Len(individuals), get_best_individual(individuals) >> >>
            /\ pc' = "stepping"
            /\ err' = err
    /\ mutation_count' = 0
    /\ UNCHANGED << rate, cities, pool_size, tournament_size, n_offsprings,
                    distances, individuals, last_op, run_vars, candidates,
                    contestants_indices, winner, operator_vars, pool_values,
                    best_route_slot >>

\* one iteration of the loop of step(): two tournaments, pair(), mutate() of
\* the offspring; a write to the offspring's array is a write to the
\* individual of the population that shares the array, if one does
StepIteration ==
    /\ pc = "stepping"
    /\ Len(step_new_individuals) < Len(individuals)
    /\ IF iteration_error(individuals, tournament_size, Len(cities)) /= "none"
       THEN /\ Raise(iteration_error(individuals, tournament_size, Len(cities)))
            /\ UNCHANGED << individuals, step_new_individuals, mutation_count,
                            best_route >>
       ELSE /\ \E parent1 \in TournamentSlots(distances, individuals, tournament_size) :
               \E parent2 \in TournamentSlots(distances, individuals, tournament_size) :
               \E c \in CutPoints(Len(cities)) :
                  LET child == pair(individuals[parent1], individuals[parent2],
                                    c[1], c[2])
                      array == pair_array(individuals[parent1], individuals[parent2])
                      slot == IF array = "self" THEN parent1
                              ELSE IF array = "other" THEN parent2
                              ELSE 0
                  IN  \E o \in MutateOutcomes(child, rate) :
                         /\ individuals' =
                               IF slot > 0 THEN [individuals EXCEPT ![slot] = o[1]]
                               ELSE individuals
                         /\ best_route' =
                               IF slot > 0 /\ slot = best_route_slot THEN o[1]
                               ELSE best_route
                         /\ step_new_individuals' =
                               Append(step_new_individuals, << slot, o[1] >>)
                         /\ mutation_count' =
                               mutation_count + (IF o[2] THEN 1 ELSE 0)
            /\ pc' = pc
            /\ err' = err
    /\ UNCHANGED << rate, cities, pool_size, tournament_size, n_offsprings,
                    distances, last_op, n_epochs, verbose, epoch, best_lengths,
                    improvements, last_improvement, total_mutations, returns,
                    population_vars, operator_vars, pool_values,
                    best_route_slot >>

\* self.pool.individuals = new_individuals; return mutation_count
StepEnd ==
    /\ pc = "stepping"
    /\ ~(Len(step_new_individuals) < Len(individuals))
    /\ pool_values' = individuals
    /\ individuals' =
          [ i \in 1..Len(step_new_individuals) |->
              IF step_new_individuals[i][1] > 0
              THEN individuals[step_new_individuals[i][1]]
              ELSE step_new_individuals[i][2] ]
    /\ last_op' = "step"
    /\ pc' = "stepped"
    /\ UNCHANGED << err, rate, cities, pool_size, tournament_size, n_offsprings,
                    distances, mutation_count, run_vars, population_vars,
                    operator_vars, step_new_individuals, best_route_slot >>

NextStep ==
    \/ StepBegin
    \/ StepIteration
    \/ StepEnd

SpecStep == InitStep /\ [][NextStep]_vars

\* ------------------------------------------- the TSP operators alone ---
\* no engine: the operators are called on two individuals alone
NoEngine ==
    /\ NoStep
    /\ cities = << >>
    /\ pool_size = 0
    /\ tournament_size = 0
    /\ n_offsprings = 0
    /\ distances = << >>
    /\ individuals = << >>
    /\ last_op = "none"
    /\ mutation_count = 0
    /\ n_epochs = 0
    /\ verbose = FALSE
    /\ NoRun
    /\ old_individuals = << >>
    /\ candidates = << >>
    /\ contestants_indices = << >>
    /\ winner = 0

\* two individuals over the same 0..n-1 cities, n <= longest
InitOperators(longest) ==
    /\ pc = "call"
    /\ err = "none"
    /\ \E n \in 0..longest :
          /\ self_value \in Perms(n)
          /\ other_value \in Perms(n)
    /\ old_value = self_value
    /\ old_other = other_value
    /\ child_value = << >>
    /\ child_array = "none"
    /\ cut = << >>
    /\ returned = FALSE
    /\ rate \in 0..RateDen
    /\ NoEngine

InitTSP == InitOperators(MaxLen)

\* child = self.pair(other, pair_params)
CallPair ==
    /\ pc = "call"
    /\ IF Len(self_value) < 2
       THEN /\ Raise("ValueError")          \* random.sample(range(size), 2)
            /\ UNCHANGED << child_value, child_array, cut >>
       ELSE /\ \E c \in CutPoints(Len(self_value)) :
                  /\ cut' = c
                  /\ child_value' = pair(self_value, other_value, c[1], c[2])
            /\ child_array' = pair_array(self_value, other_value)
            /\ pc' = "paired"
            /\ err' = err
    /\ UNCHANGED << step_vars, engine_vars, run_vars, population_vars, rate, self_value,
                    other_value, old_value, old_other, returned >>

\* self.mutate(mutate_params)
CallMutate ==
    /\ pc = "call"
    /\ \E fire \in CoinFlips(rate) :
          IF fire /\ Len(self_value) < 2
          THEN /\ Raise("ValueError")       \* random.sample(range(len), 2)
               /\ UNCHANGED << self_value, returned >>
          ELSE /\ \E o \in { m \in MutateOutcomes(self_value, rate) : m[2] = fire } :
                     /\ self_value' = o[1]
                     /\ returned' = o[2]
               /\ pc' = "mutated"
               /\ err' = err
    /\ UNCHANGED << step_vars, engine_vars, run_vars, population_vars, rate, other_value,
                    old_value, old_other, child_value, child_array, cut >>

NextTSP ==
    \/ CallPair
    \/ CallMutate

SpecTSP == InitTSP /\ [][NextTSP]_vars

\* --------------------------- pair(), then mutate() of the child ---
InitFrame == InitOperators(MaxFrameLen)

\* offspring.mutate(mutate_params) on the individual pair() returned (Evolution.step
\* line 163).  The swap writes the array that holds the child's value, and
\* with it every value stored in that same array.
MutateChild ==
    /\ pc = "paired"
    /\ \E o \in MutateOutcomes(child_value, rate) :
          /\ child_value' = o[1]
          /\ returned' = o[2]
          /\ self_value' = IF child_array = "self" THEN o[1] ELSE self_value
          /\ other_value' = IF child_array = "other" THEN o[1] ELSE other_value
    /\ pc' = "child_mutated"
    /\ UNCHANGED << step_vars, err, engine_vars, run_vars, population_vars, rate, old_value,
                    old_other, child_array, cut >>

NextFrame ==
    \/ CallPair
    \/ MutateChild

SpecFrame == InitFrame /\ [][NextFrame]_vars


\* --------------------------------------------------------- properties ---
InPool == pc \in { "constructed", "ready", "raised" }

\* the greatest fitness in a non-empty list of individuals
MaxFitness(d, inds) ==
    CHOOSE m \in { fitness(d, inds[i]) : i \in 1..Len(inds) } :
        \A i \in 1..Len(inds) : fitness(d, inds[i]) <= m

\* a transition that is a completed step()
StepTaken == pc = "ready" /\ pc' = "ready" /\ last_op' = "step"

\* C1: every step() keeps an individual of maximal fitness of the pre-step
\* population in the post-step population, so the maximal fitness of the
\* population never decreases over a step.
C1_ElitismMonotone ==
    [][ StepTaken =>
          /\ \E i \in 1..Len(individuals) :
                /\ fitness(distances, individuals[i]) = MaxFitness(distances, individuals)
                /\ individuals[i] \in Range(individuals')
          /\ MaxFitness(distances, individuals') >= MaxFitness(distances, individuals)
      ]_vars

\* C2: whenever the engine is ready, get_best_individual() returns an
\* individual whose fitness is >= the fitness of every individual of the
\* population.
C2_BestIsMax ==
    (pc = "ready") =>
        \A i \in 1..Len(individuals) :
            fitness(distances, get_best_individual(individuals))
                >= fitness(distances, individuals[i])

\* C3: the population's list is sorted ascending by fitness after
\* construction, after every replace() and after every step().
C3_Sorted == InPool => IsSorted(distances, individuals)

\* C4: for pool_size >= 1 the population holds exactly pool_size individuals
\* after construction and after every step() and replace().
C4_SizeConstant ==
    (InPool /\ pool_size >= 1) => Len(individuals) = pool_size

C4_Witness ==
    /\ pc = "ready"
    /\ last_op = "replace"
    /\ pool_size >= 2
    /\ Len(individuals) = pool_size

\* C5: with tournament_size > pool_size (on otherwise valid input: at least
\* 2 cities, pool_size >= 1) the engine is never constructed: the run stops
\* with InvalidInput before construction.
C5_OversizedTournamentRejected ==
    (tournament_size > pool_size /\ pool_size >= 1 /\ Len(cities) >= 2) =>
        \/ pc \in { "start", "distances" }
        \/ pc = "raised" /\ err = "InvalidInput"

\* C6: with size < 1 (and at least 2 cities) no population is ever created:
\* the run stops with InvalidInput at construction.
C6_EmptyPopulationRejected ==
    (pool_size < 1 /\ Len(cities) >= 2) =>
        \/ pc \in { "start", "distances" }
        \/ pc = "raised" /\ err = "InvalidInput"

\* C7: with fewer than 2 cities (and 1 <= tournament_size <= pool_size) the
\* run stops with InvalidInput when the distance model is built; it gets no
\* further.
C7_TooFewCitiesRejected ==
    (Len(cities) < 2 /\ tournament_size \in 1..pool_size) =>
        \/ pc = "start"
        \/ pc = "raised" /\ err = "InvalidInput"

\* C8: the child pair() returns for two permutations of 0..n-1 (n >= 2) has
\* length n and holds every city exactly once, for every cut the operator draws.
C8_PairPermutation ==
    (pc = "paired") => IsPermutation(child_value, Len(self_value))

C8_Witness ==
    /\ pc = "paired"
    /\ Len(self_value) = MaxLen
    /\ child_value /= self_value
    /\ child_value /= other_value

\* C9: every individual of the population holds a value of length n_cities
\* in which each index 0..n_cities-1 appears exactly once.
C9_AllPermutations ==
    InPool => \A i \in 1..Len(individuals) :
                  IsPermutation(individuals[i], Len(cities))

C9_Witness ==
    /\ pc = "ready"
    /\ last_op = "step"
    /\ mutation_count >= 1
    /\ Len(cities) = Len(Cities)
    /\ individuals[2] /= individuals[1]

\* C10: mutate() leaves the multiset of values of the individual as it was,
\* whether the swap fired, did not fire, or could not be drawn.
C10_MutatePreservesMultiset ==
    (pc \in { "mutated", "raised" }) =>
        /\ Len(self_value) = Len(old_value)
        /\ \A c \in Range(self_value) \cup Range(old_value) :
              Count(self_value, c) = Count(old_value, c)

C10_Witness ==
    /\ pc = "mutated"
    /\ returned
    /\ self_value /= old_value


\* C12: with pool_size = 1 and tournament_size = 1 every step() completes,
\* returns 0 and leaves the population holding the same single individual,
\* which get_best_individual() returns.
C12_SingleIndividualSteps ==
    [][ (pc = "ready" /\ pool_size = 1 /\ tournament_size = 1) =>
          /\ pc' = "ready"
          /\ err' = "none"
          /\ (last_op' = "step" =>
                /\ individuals' = individuals
                /\ Len(individuals') = 1
                /\ mutation_count' = 0
                /\ get_best_individual(individuals') = get_best_individual(individuals))
      ]_vars

C12_Witness ==
    /\ pc = "ready"
    /\ pool_size = 1
    /\ tournament_size = 1
    /\ last_op = "step"
    /\ Len(cities) >= 2

\* the individuals a tournament of size k can return: those that have at
\* least k - 1 others of no greater fitness to be drawn after them
CanWin(d, inds, k) ==
    { inds[i] : i \in { i \in 1..Len(inds) :
        Cardinality({ j \in 1..Len(inds) :
            j /= i /\ fitness(d, inds[j]) <= fitness(d, inds[i]) }) >= k - 1 } }

\* value is child as mutate() at rate rt can leave it: untouched unless the
\* rate is 1, with two positions exchanged unless the rate is 0
IsOffspring(value, child, rt) ==
    \/ rt < RateDen /\ value = child
    \/ /\ rt > 0
       /\ \E x, y \in 1..Len(child) :
             /\ x /= y
             /\ value = [child EXCEPT ![x] = child[y], ![y] = child[x]]

\* every entry of new behind the elite is an offspring of two of the winners
AllOffspring(new, winners, cuts, rt) ==
    \A i \in 2..Len(new) :
        \E parent1 \in winners : \E parent2 \in winners : \E c \in cuts :
            IsOffspring(new[i], pair(parent1, parent2, c[1], c[2]), rt)

C16_PairLeavesParents ==
    (pc \in { "paired", "child_mutated" }) =>
        /\ self_value = old_value
        /\ other_value = old_other
        /\ child_array = "new"

C16_Witness ==
    /\ pc = "child_mutated"
    /\ returned
    /\ Len(old_value) = MaxFrameLen
    /\ child_value /= pair(old_value, old_other, cut[1], cut[2])

\* C18: the child of pair() with cut points start < end holds
\* self.value[start:end] at positions start..end-1, and its other positions,
\* read left to right, hold the cities of other that are not in that segment,
\* in the order other has them.
C18_OrderedCrossoverLayout ==
    (pc = "paired") =>
        LET start == cut[1]
            end == cut[2]
            InSegment(city) == \E p \in (start + 1)..end : self_value[p] = city
            Outside(city) == ~InSegment(city)
        IN  /\ start < end
            /\ Len(child_value) = Len(self_value)
            /\ \A p \in (start + 1)..end : child_value[p] = self_value[p]
            /\ Prefix(child_value, start) \o From(child_value, end)
                   = SelectSeq(other_value, Outside)

C18_Witness ==
    /\ pc = "paired"
    /\ Len(self_value) = MaxLen
    /\ cut[1] >= 1
    /\ cut[2] - cut[1] >= 2
    /\ child_value /= self_value
    /\ child_value /= other_value


\* the number of members of all that replace()'s stable ascending sort puts
\* behind member i: those of greater fitness, and those of equal fitness that
\* come later in old + new
RankedAbove(d, all, i) ==
    Cardinality({ j \in 1..Len(all) :
                    \/ fitness(d, all[j]) > fitness(d, all[i])
                    \/ fitness(d, all[j]) = fitness(d, all[i]) /\ j > i })

\* C14: replace() on a population of size s >= 1 leaves the s members of
\* old + new of highest fitness, sorted ascending by fitness: a member survives
\* exactly when fewer than s members rank above it, and a candidate worse
\* than every old individual is discarded.
C14_ReplaceKeepsBest ==
    (pc = "replaced" /\ Len(old_individuals) >= 1) =>
        LET s == Len(old_individuals)
            all == old_individuals \o candidates
        IN  /\ Len(individuals) = s
            /\ IsSorted(distances, individuals)
            /\ \A i \in 1..Len(all) :
                  RankedAbove(distances, all, i) < s =>
                      individuals[s - RankedAbove(distances, all, i)] = all[i]
            /\ \A i \in 1..s : \A j \in 1..Len(all) :
                  RankedAbove(distances, all, j) >= s =>
                      fitness(distances, all[j]) <= fitness(distances, individuals[i])
            /\ \A c \in 1..Len(candidates) :
                  (\A i \in 1..s : fitness(distances, candidates[c])
                                      < fitness(distances, old_individuals[i]))
                      => \A i \in 1..s : individuals[i] /= candidates[c]

C14_Witness ==
    /\ pc = "replaced"
    /\ Len(old_individuals) = 2
    /\ Len(candidates) = 1
    /\ fitness(distances, old_individuals[1]) < fitness(distances, candidates[1])
    /\ fitness(distances, candidates[1]) < fitness(distances, old_individuals[2])
    /\ individuals = << candidates[1], old_individuals[2] >>

\* C15: tournament_selection(k) with 1 <= k <= population size draws k
\* pairwise distinct slots and returns a drawn contestant of maximal fitness
\* among the drawn ones, the first-drawn one of those that share the maximum.
C15_TournamentWinner ==
    (pc = "selected") =>
        LET k == Len(contestants_indices)
            Fit(i) == fitness(distances, individuals[contestants_indices[i] + 1])
        IN  /\ k = tournament_size
            /\ \A i \in 1..k : contestants_indices[i] \in 0..(Len(individuals) - 1)
            /\ \A i, j \in 1..k :
                  contestants_indices[i] = contestants_indices[j] => i = j
            /\ \E w \in 1..k :
                  /\ contestants_indices[w] = winner
                  /\ \A i \in 1..k : Fit(i) <= Fit(w)
                  /\ \A i \in 1..(w - 1) : Fit(i) < Fit(w)

C15_Witness ==
    /\ pc = "selected"
    /\ Len(cities) = 4
    /\ Len(contestants_indices) = 2
    /\ winner = contestants_indices[1]
    /\ individuals[contestants_indices[2] + 1] /= individuals[winner + 1]
    /\ fitness(distances, individuals[contestants_indices[2] + 1])
           = fitness(distances, individuals[winner + 1])


\* otherwise valid arguments of a run: a population, at least two cities and
\* a tournament the population can fill
ValidRun ==
    /\ pool_size >= 1
    /\ Len(cities) >= 2
    /\ tournament_size \in 1..pool_size

\* C11: a run with n_epochs = 0 and the default verbose = True completes
\* without error, having called step() zero times, with a length history of
\* one entry, the initial best length, and the initial best individual's
\* value as best_route.
C11_ZeroEpochsCompletes ==
    (ValidRun /\ n_epochs = 0 /\ verbose) =>
        /\ pc /= "raised"
        /\ pc = "done" =>
              /\ returns = << >>
              /\ Len(best_lengths) = 1
              /\ best_route = get_best_individual(individuals)
              /\ best_lengths[1] = 0 - fitness(distances, best_route)

\* the length of a shortest tour of the cities (at least one city)
OptimalLength ==
    CHOOSE m \in { route_length(distances, r, 0) : r \in Perms(Len(cities)) } :
        \A r \in Perms(Len(cities)) : m <= route_length(distances, r, 0)

\* C13: on four cities at the corners of a rectangle, a run of at least one
\* epoch with a population of two or more ends with the reported best length
\* equal to the optimal tour length; stated here for the runs whose initial
\* best route is already optimal.
C13_EndsAtOptimum ==
    (/\ pc = "done"
     /\ ValidRun
     /\ Len(cities) = 4
     /\ pool_size >= 2
     /\ n_epochs >= 1
     /\ best_lengths[1] = OptimalLength)
        => best_lengths[Len(best_lengths)] = OptimalLength

\* C17: a run of N epochs that returns has called step() N times and holds a
\* history of N + 1 lengths: entry 0 is the best length of the initial
\* population, and the entry each epoch appends is the length of the
\* individual get_best_individual() returns right after that epoch's step.
C17_HistoryPerEpoch ==
    [][ /\ (pc = "constructed" /\ pc' = "loop") =>
              best_lengths' = << 0 - MaxFitness(distances, individuals) >>
        /\ (pc = "loop" /\ pc' = "loop") =>
              /\ epoch' = epoch + 1
              /\ Len(returns') = Len(returns) + 1
              /\ best_lengths' = Append(best_lengths,
                    0 - fitness(distances', get_best_individual(individuals')))
        /\ (pc' \in { "loop", "done" }) =>
              /\ Len(returns') = epoch'
              /\ Len(best_lengths') = epoch' + 1
        /\ (pc' = "done") =>
              /\ epoch' = n_epochs
              /\ best_lengths' = best_lengths
              /\ returns' = returns
      ]_vars

C17_Witness ==
    /\ pc = "done"
    /\ n_epochs = 2
    /\ Len(best_lengths) = 3
    /\ best_lengths[1] /= best_lengths[2]
    /\ best_lengths[2] /= best_lengths[3]

RECURSIVE Sum(_)
Sum(s) == IF s = << >> THEN 0 ELSE Head(s) + Sum(Tail(s))

\* the 0-based epochs whose recorded length is below the entry before it
ImprovingEpochs(h) ==
    { e \in 0..(Len(h) - 2) : h[e + 2] < h[e + 1] }

\* C20: at the end of a run improvements is the number of epochs whose
\* recorded length is strictly below the previous history entry,
\* last_improvement is the last such epoch (0 when there is none), and
\* total_mutations is the sum of the values the step() calls returned.
C20_Bookkeeping ==
    (pc = "done") =>
        /\ improvements = Cardinality(ImprovingEpochs(best_lengths))
        /\ last_improvement =
              IF ImprovingEpochs(best_lengths) = {} THEN 0
              ELSE CHOOSE e \in ImprovingEpochs(best_lengths) :
                      \A f \in ImprovingEpochs(best_lengths) : f <= e
        /\ total_mutations = Sum(returns)

C20_Witness ==
    /\ pc = "done"
    /\ n_epochs = 2
    /\ best_lengths[2] = best_lengths[1]
    /\ best_lengths[3] < best_lengths[2]
    /\ improvements = 1
    /\ last_improvement = 1
    /\ total_mutations = 1


\* C21: the best_length a run returns is the tour length, with wraparound,
\* of the best_route it returns.
C21_LengthOfReturnedRoute ==
    (pc = "done") =>
        best_lengths[Len(best_lengths)] = route_length(distances, best_route, 0)

\* C22: the length history a run returns never increases from one epoch to
\* the next, so its last entry is its minimum and is at most the initial
\* best length.
C22_HistoryNonIncreasing ==
    (pc = "done") =>
        /\ \A e \in 1..(Len(best_lengths) - 1) :
              best_lengths[e + 1] <= best_lengths[e]
        /\ \A e \in 1..Len(best_lengths) :
              best_lengths[Len(best_lengths)] <= best_lengths[e]

\* C24: the cut points pair() draws satisfy 0 <= start < end <= n - 1: the
\* copied segment has 1 to n - 1 cities and leaves out self's last position,
\* the child's last position holds a city taken from other, and end = n
\* does not occur.
C24_CutPointRange ==
    (pc = "paired") =>
        LET n == Len(self_value)
            start == cut[1]
            end == cut[2]
        IN  /\ 0 <= start
            /\ start < end
            /\ end <= n - 1
            /\ end - start \in 1..(n - 1)
            /\ \A p \in (start + 1)..end : child_value[n] /= self_value[p]

C24_Witness ==
    /\ pc = "paired"
    /\ Len(self_value) = MaxLen
    /\ cut = << 1, MaxLen - 1 >>
    /\ child_value[MaxLen] /= self_value[MaxLen]


\* C23: step() writes only to the offspring it creates: while it runs and
\* when it ends every pre-step individual (the carried-over elite and the
\* tournament parents among them) holds the value it held when the step
\* began, and so does the array that is the run's initial best_route; the
\* entries of the new list behind the elite are individuals of their own.
C23_StepFrame ==
    /\ (pc \in { "stepping", "raised" }) => individuals = old_individuals
    /\ (pc = "stepping") =>
          /\ step_new_individuals[1] =
                << Len(old_individuals), get_best_individual(old_individuals) >>
          /\ \A i \in 2..Len(step_new_individuals) :
                step_new_individuals[i][1] = 0
          /\ best_route = old_individuals[best_route_slot]
    /\ (pc = "stepped") =>
          /\ pool_values = old_individuals
          /\ individuals[1] = get_best_individual(old_individuals)
          /\ best_route = old_individuals[best_route_slot]

C23_Witness ==
    /\ pc = "stepped"
    /\ Len(cities) = 4
    /\ Len(individuals) = 2
    /\ best_route_slot = 2
    /\ mutation_count = 1
    /\ individuals[2] /= old_individuals[1]
    /\ individuals[2] /= old_individuals[2]

=============================================================================
